---- MODULE Spec2Model ----
(***************************************************************************)
(* Model of ipfs-vhosts-proxy (src/ipfs-vhosts-proxy.js): the vhost        *)
(* registry state.vhosts, its synchronisation with the IPNS record         *)
(* (refreshVhosts / publishVhosts), the control-plane handlers under       *)
(* /api/v1/vhosts, the refresh timer, and the proxy middleware with its    *)
(* proxyReq rewriting hook.                                                *)
(*                                                                         *)
(* Strings are sequences of chunks.  A vhost name is spelled one character *)
(* per chunk (so that prefix tests are real), the separators "/", "." and  *)
(* ":" are chunks of their own, and opaque pieces (a CID, the word "ipfs", *)
(* a DNS label of the gateway, a port number) are one chunk each.          *)
(* Concatenation is \o.                                                    *)
(***************************************************************************)
EXTENDS Integers, Sequences, FiniteSets, Bags, TLC

\* ------------------------------------------------------------------ bounds
\* Number of detached refreshes (timer ticks, un-awaited lookups) in flight.
MaxDetached == 1

\* ----------------------------------------------------------------- strings
Slash == <<"/">>
Dot == <<".">>
Colon == <<":">>

\* JavaScript null and undefined: values that are no string, written as one
\* chunk no string holds.  They and the empty string are falsy; every other
\* string, and every function or object, is truthy.
Null == <<"#null">>
Undefined == <<"#undefined">>
Truthy(s) == s \notin {Null, Undefined, << >>}

\* String(x), as a template literal or a property access converts its
\* operand: null is "null", undefined is "undefined".
StringOf(x) ==
  IF x = Null THEN <<"n", "u", "l", "l">>
  ELSE IF x = Undefined THEN <<"u", "n", "d", "e", "f", "i", "n", "e", "d">>
  ELSE x

\* s.startsWith(p)
StartsWith(s, p) == Len(s) >= Len(p) /\ SubSeq(s, 1, Len(p)) = p

\* s.indexOf(p), 0 when p does not occur (positions are 1-based here).
IndexOf(s, p) ==
  LET hits == {i \in 1..(Len(s) - Len(p) + 1) : SubSeq(s, i, i + Len(p) - 1) = p}
  IN IF hits = {} THEN 0 ELSE CHOOSE i \in hits : \A j \in hits : i <= j

\* s.replace(p, r) with a string pattern: the first occurrence only.
ReplaceFirst(s, p, r) ==
  LET i == IndexOf(s, p)
  IN IF i = 0 THEN s
     ELSE SubSeq(s, 1, i - 1) \o r \o SubSeq(s, i + Len(p), Len(s))

\* s.split(sep)[0]: everything before the first separator chunk.
FirstField(s, sep) ==
  LET i == IndexOf(s, sep)
  IN IF i = 0 THEN s ELSE SubSeq(s, 1, i - 1)

\* s.split(sep) as a sequence of fields.
RECURSIVE Split(_, _)
Split(s, sep) ==
  LET i == IndexOf(s, sep)
  IN IF i = 0 THEN <<s>>
     ELSE <<SubSeq(s, 1, i - 1)>> \o Split(SubSeq(s, i + 1, Len(s)), sep)

\* ------------------------------------------------------------- the registry
\* state.vhosts is a plain JavaScript object: a list of <<key, cid>> pairs
\* with distinct keys, in the order Object.keys and JSON.stringify walk them:
\* the keys that are array indices ("0", "1", "10", ...) first, in numeric
\* order, then the other keys in insertion order.
Keys(v) == [i \in 1..Len(v) |-> v[i][1]]
KeySet(v) == {v[i][1] : i \in 1..Len(v)}
HasKey(v, k) == k \in KeySet(v)

\* What a plain object inherits from Object.prototype: functions, and the
\* prototype itself under __proto__.  None of them is a string.
ObjectPrototype ==
  ( <<"c", "o", "n", "s", "t", "r", "u", "c", "t", "o", "r">> :> <<"#function constructor">>
 @@ <<"_", "_", "d", "e", "f", "i", "n", "e", "G", "e", "t", "t", "e", "r", "_", "_">> :> <<"#function __defineGetter__">>
 @@ <<"_", "_", "d", "e", "f", "i", "n", "e", "S", "e", "t", "t", "e", "r", "_", "_">> :> <<"#function __defineSetter__">>
 @@ <<"h", "a", "s", "O", "w", "n", "P", "r", "o", "p", "e", "r", "t", "y">> :> <<"#function hasOwnProperty">>
 @@ <<"_", "_", "l", "o", "o", "k", "u", "p", "G", "e", "t", "t", "e", "r", "_", "_">> :> <<"#function __lookupGetter__">>
 @@ <<"_", "_", "l", "o", "o", "k", "u", "p", "S", "e", "t", "t", "e", "r", "_", "_">> :> <<"#function __lookupSetter__">>
 @@ <<"i", "s", "P", "r", "o", "t", "o", "t", "y", "p", "e", "O", "f">> :> <<"#function isPrototypeOf">>
 @@ <<"p", "r", "o", "p", "e", "r", "t", "y", "I", "s", "E", "n", "u", "m", "e", "r", "a", "b", "l", "e">> :> <<"#function propertyIsEnumerable">>
 @@ <<"t", "o", "S", "t", "r", "i", "n", "g">> :> <<"#function toString">>
 @@ <<"v", "a", "l", "u", "e", "O", "f">> :> <<"#function valueOf">>
 @@ <<"_", "_", "p", "r", "o", "t", "o", "_", "_">> :> <<"#object __proto__">>
 @@ <<"t", "o", "L", "o", "c", "a", "l", "e", "S", "t", "r", "i", "n", "g">> :> <<"#function toLocaleString">> )

\* v[k]: the own property under String(k), else the inherited one, else
\* undefined.
Get(v, k) ==
  LET key == StringOf(k) IN
  IF HasKey(v, key) THEN LET i == CHOOSE i \in 1..Len(v) : v[i][1] = key IN v[i][2]
  ELSE IF key \in DOMAIN ObjectPrototype THEN ObjectPrototype[key]
  ELSE Undefined

\* An array index: a canonical decimal numeral below 2^32 - 1.
Digits == {"0", "1", "2", "3", "4", "5", "6", "7", "8", "9"}
DigitValue ==
  ( "0" :> 0 @@ "1" :> 1 @@ "2" :> 2 @@ "3" :> 3 @@ "4" :> 4
 @@ "5" :> 5 @@ "6" :> 6 @@ "7" :> 7 @@ "8" :> 8 @@ "9" :> 9 )
MaxArrayIndex == <<"4", "2", "9", "4", "9", "6", "7", "2", "9", "4">>

\* a < b for two numerals of the same length
RECURSIVE NumeralLess(_, _)
NumeralLess(a, b) ==
  /\ a # << >>
  /\ \/ DigitValue[Head(a)] < DigitValue[Head(b)]
     \/ Head(a) = Head(b) /\ NumeralLess(Tail(a), Tail(b))

IndexLess(a, b) == Len(a) < Len(b) \/ (Len(a) = Len(b) /\ NumeralLess(a, b))

IsArrayIndex(k) ==
  /\ Len(k) >= 1
  /\ \A i \in 1..Len(k) : k[i] \in Digits
  /\ Len(k) = 1 \/ k[1] # "0"
  /\ ~IndexLess(MaxArrayIndex, k)

\* The entries of v whose key is an array index, in numeric order.
RECURSIVE IndexEntries(_)
IndexEntries(v) ==
  LET idx == {i \in 1..Len(v) : IsArrayIndex(v[i][1])} IN
  IF idx = {} THEN << >>
  ELSE LET m == CHOOSE i \in idx : \A j \in idx : i = j \/ IndexLess(v[i][1], v[j][1])
       IN <<v[m]>> \o IndexEntries(SubSeq(v, 1, m - 1) \o SubSeq(v, m + 1, Len(v)))

IsNamedEntry(e) == ~IsArrayIndex(e[1])

\* The order in which an object lists the properties defined in the order v.
OwnPropertyOrder(v) == IndexEntries(v) \o SelectSeq(v, IsNamedEntry)

\* { ...v, [k]: c }: the property String(k) is set; an existing key keeps its
\* place, a new one takes the place the object's property order gives it.
Put(v, k, c) ==
  LET key == StringOf(k) IN
  IF HasKey(v, key) THEN [i \in 1..Len(v) |-> IF v[i][1] = key THEN <<key, c>> ELSE v[i]]
  ELSE OwnPropertyOrder(Append(v, <<key, c>>))

\* copy = { ...v }; delete copy[k]; { ...copy }
RECURSIVE Remove(_, _)
Remove(v, k) ==
  IF v = << >> THEN << >>
  ELSE IF Head(v)[1] = StringOf(k) THEN Remove(Tail(v), k)
  ELSE <<Head(v)>> \o Remove(Tail(v), k)

\* ------------------------------------------------------------------- JSON
\* The durable record is JSON text, modelled as a token sequence
\*   { "k1" : "c1" , "k2" : "c2" }
Tok(ty, val) == [ty |-> ty, val |-> val]
LBrace == Tok("{", << >>)
RBrace == Tok("}", << >>)
ColonTok == Tok(":", << >>)
CommaTok == Tok(",", << >>)
StrTok(s) == Tok("str", s)

RECURSIVE StringifyMembers(_)
StringifyMembers(v) ==
  IF v = << >> THEN << >>
  ELSE <<StrTok(Head(v)[1]), ColonTok, StrTok(Head(v)[2])>>
       \o (IF Len(v) > 1 THEN <<CommaTok>> ELSE << >>)
       \o StringifyMembers(Tail(v))

\* JSON.stringify(state.vhosts)
JSONStringify(v) == <<LBrace>> \o StringifyMembers(v) \o <<RBrace>>

\* The members between the braces: "k" : "c" ( , "k" : "c" )*
RECURSIVE MembersOK(_)
MembersOK(t) ==
  /\ Len(t) >= 3
  /\ t[1].ty = "str" /\ t[2].ty = ":" /\ t[3].ty = "str"
  /\ \/ Len(t) = 3
     \/ Len(t) > 4 /\ t[4].ty = "," /\ MembersOK(SubSeq(t, 5, Len(t)))

\* Whether JSON.parse accepts the text (as an object of strings).
JSONValid(t) ==
  /\ Len(t) >= 2
  /\ t[1].ty = "{" /\ t[Len(t)].ty = "}"
  /\ \/ Len(t) = 2
     \/ MembersOK(SubSeq(t, 2, Len(t) - 1))

\* A later duplicate key overwrites the value and keeps the first position.
RECURSIVE ParseMembers(_, _)
ParseMembers(t, acc) ==
  IF Len(t) < 3 THEN acc
  ELSE ParseMembers(SubSeq(t, 5, Len(t)), Put(acc, t[1].val, t[3].val))

\* JSON.parse(json), for text JSONValid accepts.
JSONParse(t) == ParseMembers(SubSeq(t, 2, Len(t) - 1), << >>)

\* ------------------------------------------------------------------- CIDs
\* A CID string is one chunk.  What the cids library reads off a string:
\* the version, the multibase name and the multihash it carries.
CIDTable ==
  ( "bafyA" :> [version |-> 1, multibaseName |-> "base32", hash |-> "A"]
 @@ "bafyB" :> [version |-> 1, multibaseName |-> "base32", hash |-> "B"]
 @@ "QmB" :> [version |-> 0, multibaseName |-> "base58btc", hash |-> "B"]
 @@ "zB" :> [version |-> 1, multibaseName |-> "base58btc", hash |-> "B"] )

\* new CID(str) succeeds
CIDParses(str) == Len(str) = 1 /\ str[1] \in DOMAIN CIDTable

\* new CID(str), for a string that parses
NewCID(str) == CIDTable[str[1]]

\* cidObj.toString() / toBaseEncodedString(base) of a version-1 CID
CIDToString(version, base, hash) ==
  LET hit == {c \in DOMAIN CIDTable :
                /\ CIDTable[c].version = version
                /\ CIDTable[c].multibaseName = base
                /\ CIDTable[c].hash = hash}
  IN <<CHOOSE c \in hit : TRUE>>

\* isValidCID(str): CID.isCID(new CID(str)), false when the constructor throws
isValidCID(str) == CIDParses(str)

\* ----------------------------------------------------------- configuration
api == <<"a", "p", "i">>
content == <<"c", "o", "n", "t", "e", "n", "t">>
localhost == <<"l", "o", "c", "a", "l", "h", "o", "s", "t">>
\* A deny list that forgot the control-plane prefix.
NAME_DENY_LIST_NoApi == {content, localhost}
NAME_DENY_LIST == {api, content, localhost}

\* config.ipfs.gateway.address as new URL(...) reads it: hostname and port
\* (an empty port is the protocol's default one, which URL drops).
GatewayDNS == [hostname |-> <<"gw", ".", "example", ".", "com">>, port |-> << >>]
GatewayIP == [hostname |-> <<"127", ".", "0", ".", "0", ".", "1">>, port |-> <<"8080">>]
Gateways == {GatewayDNS, GatewayIP}

\* urlObj.host: the hostname, with ":port" when the port is not the default
URLHost(url) == url.hostname \o (IF url.port = << >> THEN << >> ELSE Colon \o url.port)

\* is-ip on a host name: four dot-separated decimal octets (IPv4); the
\* hosts of the model carry no IPv6 literal.
Octets == {"0", "1", "127", "10", "8"}
isIP(hostName) ==
  LET parts == Split(hostName, Dot)
  IN /\ Len(parts) = 4
     /\ \A i \in 1..4 : Len(parts[i]) = 1 /\ parts[i][1] \in Octets

isTargetSubdomainsSupported(target) == ~isIP(target.hostname)

\* ------------------------------------------------------------------- state
VARIABLES
  vhosts,      \* state.vhosts
  durable,     \* the JSON text the IPNS name currently points at
  calls,       \* the control-plane calls in flight, one record per slot
  detached,    \* bag of refreshes nobody awaits: timer ticks and the
               \* un-awaited getVhostByName of PUT and DELETE
  alive,       \* the process is running
  onUnhandled, \* what this Node.js does with an unhandled rejection
  overlap,     \* history: two writes of the present round overlapped in time
  gateway,     \* config.ipfs.gateway.address
  proxied,     \* the last proxied request and what was sent to the gateway
  history,     \* history: the writes that have answered with success
  shutdown     \* the signal received, what shutdown() did and the exit code

vars == <<vhosts, durable, calls, detached, alive, onUnhandled, overlap, gateway, proxied,
          history, shutdown>>

\* The claims on concurrent calls speak of two calls: two slots.
Slots == {1, 2}

NameA == <<"a">>
NameB == <<"b">>
CidA == <<"bafyA">>
CidB == <<"QmB">>
CidBad == <<"bad">>

\* Inputs of the control-plane calls: the names a client reads or deletes,
\* the names and CIDs it writes.
ReqNames == {NameA}
EmptyName == << >>
WriteNames == {NameA, api}
NameOne == <<"1">>
NameConstructor == <<"c", "o", "n", "s", "t", "r", "u", "c", "t", "o", "r">>
OddNames == {EmptyName, NameOne}       \* a POST body may carry name: "" or "1"
InheritedNames == {NameConstructor}
ReqCids == {CidA, CidBad}
WriteOps == {"create", "update", "delete"}
ReadOps == {"list", "get"}

\* The successful writes so far: the last one.
NoWrite == [op |-> "none", name |-> Undefined, cid |-> Undefined]
NoHistory == [last |-> NoWrite]
Recorded(h, op, name, cid) == [last |-> [op |-> op, name |-> name, cid |-> cid]]

\* process.on(signal, () => shutdown(signal, value)): the value of each signal.
Signals == [SIGHUP |-> 1, SIGINT |-> 2, SIGTERM |-> 15]

\* The functions in scope where shutdown() runs: the timer functions Node.js
\* provides and the names the module defines.
InScope == {"setInterval", "clearInterval", "setTimeout", "clearTimeout", "server", "proxy",
            "process", "refreshInterval"}

\* No signal yet: nothing of shutdown() has run and the process has not
\* exited (exitCode -1).
Running == [signal |-> "none", steps |-> << >>, exitCode |-> -1]

\* No cat in flight.
NoRes == [ok |-> FALSE, bytes |-> << >>]

\* A slot holds one call: where it stands (pc), its request (op, name, cid),
\* its awaited cat (res), the text handed to ipfs.add (content), which of its
\* awaits rejected (err), and its response (status, body; 0 = none sent);
\* base and own are history: for a get, the successful writes when it was
\* sent; for a write, whether it resumed on the registry its own refresh had
\* loaded.
Idle == [pc |-> "idle", op |-> "none", name |-> Undefined, cid |-> Undefined,
         res |-> NoRes, content |-> << >>, status |-> 0, err |-> "none",
         body |-> << >>, base |-> NoHistory, own |-> FALSE]

\* The proxied request: how far it got (stage: "none", "middleware" once the
\* middleware has called proxy.web, "sent" once the proxyReq hook has run),
\* the request's Host header and path, the registry each of the two callbacks
\* read, and the Host header and path of the outgoing request.
NoRequest == [stage |-> "none", reqHost |-> Undefined, reqPath |-> Undefined,
              seenByMiddleware |-> << >>, seenByHook |-> << >>,
              outHost |-> Undefined, outPath |-> Undefined, pathKey |-> Undefined]

\* Registries the IPNS record can hold when the process starts.
InitialRegistries == { << >>, <<<<NameA, CidB>>>> }

\* After start(): the awaited first refreshVhosts() has replaced the built-in
\* mapping by the durable one and the timer is armed.
Init ==
  /\ \E v \in InitialRegistries : vhosts = v /\ durable = JSONStringify(v)
  /\ calls = [s \in Slots |-> Idle]
  /\ detached = EmptyBag
  /\ alive = TRUE
  /\ onUnhandled \in {"warn", "throw"}
  /\ overlap = FALSE
  /\ gateway = GatewayIP
  /\ proxied = NoRequest
  /\ history = NoHistory
  /\ shutdown = Running

\* ------------------------------------------------ refreshVhosts, publishVhosts
\* What ipfs.cat(`/ipns/${name}`) can deliver: the record, a record cut short
\* after its first byte, or an error.
CatOutcomes(bytes) ==
  { [ok |-> TRUE, bytes |-> bytes],
    [ok |-> TRUE, bytes |-> SubSeq(bytes, 1, 1)],
    [ok |-> FALSE, bytes |-> << >>] }

\* A refresh that rejects on a failed cat only and swallows a parse error.
RefreshThrows_OnlyCatError(res) == ~res.ok

\* refreshVhosts rejects: the cat failed or JSON.parse threw.
RefreshThrows(res) == ~res.ok \/ ~JSONValid(res.bytes)

\* A refresh that empties the registry when the record does not parse.
RefreshVhosts_ClearOnBadJSON(cur, res) ==
  IF ~res.ok THEN cur ELSE IF JSONValid(res.bytes) THEN JSONParse(res.bytes) ELSE << >>

\* state.vhosts once refreshVhosts has settled, cur being its value before.
RefreshVhosts(cur, res) == IF RefreshThrows(res) THEN cur ELSE JSONParse(res.bytes)

\* ------------------------------------------------------- control plane
InFlight(c) == c.pc \in {"refresh", "resume", "add", "publish"}

\* A refreshVhosts() has settled and the call awaiting it has not resumed
\* yet: the event loop is running the promise jobs of the present turn, and
\* no request, timer or signal is taken up before they are done.
Draining == \E s \in Slots : calls[s].pc = "resume"

\* Calls take the lowest free slot.
Free(s) ==
  /\ ~Draining
  /\ calls[s].pc = "idle" /\ \A t \in Slots : t < s => calls[t].pc # "idle"

\* A write of another slot is in flight.
OtherWriteInFlight(s) ==
  \E t \in Slots \ {s} : InFlight(calls[t]) /\ calls[t].op \in WriteOps

\* The call of slot s awaits refreshVhosts(): the cat is on its way.
AwaitRefresh(s, op, name, cid, res) ==
  calls' = [calls EXCEPT ![s] = [Idle EXCEPT !.pc = "refresh", !.op = op,
                                  !.name = name, !.cid = cid, !.res = res]]

\* The call of slot s has answered.
Respond(s, op, name, cid, status, err, body) ==
  calls' = [calls EXCEPT ![s] = [Idle EXCEPT !.pc = "done", !.op = op,
                                  !.name = name, !.cid = cid, !.status = status,
                                  !.err = err, !.body = body,
                                  !.base = calls[s].base, !.own = calls[s].own]]

\* A handler that answers without looking at how publishVhosts settled.
WriteStatus_IgnoreFailure(op, failed) == IF op = "delete" THEN 200 ELSE 201

\* The status a write handler sends once its awaited helper has settled: a
\* rejection goes through express-async-handler to next(), and Express
\* answers 500.
WriteStatus(op, failed) ==
  IF failed THEN 500 ELSE IF op = "delete" THEN 200 ELSE 201

\* An un-awaited refresh joins the detached ones.
Detach(src, res) == detached (+) SetToBag({[src |-> src, res |-> res]})

\* GET /api/v1/vhosts: getVhosts() up to its await.
ListRequest(s) ==
  /\ alive /\ Free(s)
  /\ \E res \in CatOutcomes(durable) : AwaitRefresh(s, "list", Undefined, Undefined, res)
  /\ UNCHANGED <<vhosts, durable, detached, alive, onUnhandled, overlap, gateway, proxied, history, shutdown>>

\* GET /api/v1/vhosts/:name: getVhostByName(name) up to its await.
GetRequest(s, name) ==
  /\ alive /\ Free(s)
  /\ \E res \in CatOutcomes(durable) :
       calls' = [calls EXCEPT ![s] = [Idle EXCEPT !.pc = "refresh", !.op = "get", !.name = name,
                                                   !.res = res, !.base = history]]
  /\ UNCHANGED <<vhosts, durable, detached, alive, onUnhandled, overlap, gateway, proxied, history, shutdown>>

\* POST /api/v1/vhosts: the deny list, then the CID, then addVhost up to its
\* first await.
CreateRequest(s, name, cid) ==
  /\ alive /\ Free(s)
  /\ IF name \in NAME_DENY_LIST
       THEN /\ Respond(s, "create", name, cid, 401, "name_not_allowed", << >>)
            /\ overlap' = overlap
     ELSE IF ~isValidCID(cid)
       THEN /\ Respond(s, "create", name, cid, 400, "invalid_cid", << >>)
            /\ overlap' = overlap
     ELSE /\ \E res \in CatOutcomes(durable) : AwaitRefresh(s, "create", name, cid, res)
          /\ overlap' = (overlap \/ OtherWriteInFlight(s))
  /\ UNCHANGED <<vhosts, durable, detached, alive, onUnhandled, gateway, proxied, history, shutdown>>

\* PUT /api/v1/vhosts/:name: getVhostByName(name) is called but not awaited,
\* so `vhost` is a promise, the not_found branch is never taken and the
\* lookup's refresh runs detached; then the CID, then addVhost.
UpdateRequest(s, name, cid) ==
  /\ alive /\ Free(s)
  /\ BagCardinality(detached) < MaxDetached
  /\ \E lookup \in CatOutcomes(durable) : detached' = Detach("lookup", lookup)
  /\ IF ~isValidCID(cid)
       THEN /\ Respond(s, "update", name, cid, 400, "invalid_cid", << >>)
            /\ overlap' = overlap
     ELSE /\ \E res \in CatOutcomes(durable) : AwaitRefresh(s, "update", name, cid, res)
          /\ overlap' = (overlap \/ OtherWriteInFlight(s))
  /\ UNCHANGED <<vhosts, durable, alive, onUnhandled, gateway, proxied, history, shutdown>>

\* DELETE /api/v1/vhosts/:name: the same un-awaited lookup, then
\* deleteVhostByName up to its first await.
DeleteRequest(s, name) ==
  /\ alive /\ Free(s)
  /\ BagCardinality(detached) < MaxDetached
  /\ \E lookup \in CatOutcomes(durable) : detached' = Detach("lookup", lookup)
  /\ \E res \in CatOutcomes(durable) : AwaitRefresh(s, "delete", name, Undefined, res)
  /\ overlap' = (overlap \/ OtherWriteInFlight(s))
  /\ UNCHANGED <<vhosts, durable, alive, onUnhandled, gateway, proxied, history, shutdown>>

\* The array getVhosts() returns.
Entries(v) == v

\* A mutation under the literal key: { ...v, name: cid } and
\* const { name: _, ...rest } = v.
Mutate_LiteralKey(v, op, name, cid) ==
  IF op = "delete" THEN Remove(v, <<"n", "a", "m", "e">>)
  ELSE Put(v, <<"n", "a", "m", "e">>, cid)

\* The in-memory mutation of addVhost / deleteVhostByName on the registry v.
Mutate(v, op, name, cid) == IF op = "delete" THEN Remove(v, name) ELSE Put(v, name, cid)

\* A publish that serializes the registry before the mutation is applied.
PublishedText_Before(before, after) == JSONStringify(before)

\* publishVhosts, called right behind the mutation with no await between:
\* the text handed to ipfs.add is the mutated registry's.
PublishedText(before, after) == JSONStringify(after)

\* The cat of the refreshVhosts() slot s awaits settles: refreshVhosts
\* assigns state.vhosts, or rejects.  The call itself resumes one promise job
\* later; the jobs of other promises settled in the same turn run in between.
RefreshSettles(s) ==
  LET c == calls[s] IN
  /\ alive /\ c.pc = "refresh"
  /\ vhosts' = RefreshVhosts(vhosts, c.res)
  /\ calls' = [calls EXCEPT ![s].pc = "resume"]
  /\ UNCHANGED <<durable, detached, alive, onUnhandled, overlap, gateway, proxied, history, shutdown>>

\* The call of slot s resumes after `await refreshVhosts()` and runs on to
\* its next await or to its response, reading state.vhosts as it is now.
Resume(s) ==
  LET c == calls[s] IN
  /\ alive /\ c.pc = "resume"
  /\ IF RefreshThrows(c.res)
       THEN /\ vhosts' = vhosts
            /\ Respond(s, c.op, c.name, c.cid, 500, "refresh", << >>)
     ELSE IF c.op = "list"
       THEN /\ vhosts' = vhosts
            /\ Respond(s, c.op, c.name, c.cid, 200, "none", Entries(vhosts))
     ELSE IF c.op = "get"
       THEN /\ vhosts' = vhosts
            /\ IF ~Truthy(Get(vhosts, c.name))
                 THEN Respond(s, c.op, c.name, c.cid, 404, "not_found", << >>)
                 ELSE Respond(s, c.op, c.name, c.cid, 200, "none", <<c.name, Get(vhosts, c.name)>>)
     ELSE /\ vhosts' = Mutate(vhosts, c.op, c.name, c.cid)
          /\ calls' = [calls EXCEPT ![s].pc = "add", ![s].res = NoRes,
                                    ![s].content = PublishedText(vhosts, vhosts'),
                                    ![s].own = (vhosts = JSONParse(c.res.bytes))]
  /\ UNCHANGED <<durable, detached, alive, onUnhandled, overlap, gateway, proxied, history, shutdown>>

\* publishVhosts: ipfs.add settles.
AddSettles(s) ==
  LET c == calls[s] IN
  /\ alive /\ c.pc = "add"
  /\ \E ok \in BOOLEAN :
       IF ok THEN calls' = [calls EXCEPT ![s].pc = "publish"]
       ELSE Respond(s, c.op, c.name, c.cid, WriteStatus(c.op, TRUE), "add", << >>)
  /\ UNCHANGED <<vhosts, durable, detached, alive, onUnhandled, overlap, gateway, proxied, history, shutdown>>

\* A publish that puts the registry back to the durable record when it fails.
PublishSettles_Rollback(s) ==
  LET c == calls[s] IN
  /\ alive /\ c.pc = "publish"
  /\ \E ok \in BOOLEAN :
       IF ok THEN /\ durable' = c.content
                  /\ vhosts' = vhosts
                  /\ Respond(s, c.op, c.name, c.cid, WriteStatus(c.op, FALSE), "none", << >>)
                  /\ history' = Recorded(history, c.op, c.name, c.cid)
       ELSE /\ durable' = durable
            /\ vhosts' = JSONParse(durable)
            /\ Respond(s, c.op, c.name, c.cid, WriteStatus(c.op, TRUE), "publish", << >>)
            /\ history' = history
  /\ UNCHANGED <<detached, alive, onUnhandled, overlap, gateway, proxied, shutdown>>

\* publishVhosts: ipfs.name.publish settles; on success the name points at
\* the added text and the handler sends its success response.
PublishSettles(s) ==
  LET c == calls[s] IN
  /\ alive /\ c.pc = "publish"
  /\ \E ok \in BOOLEAN :
       IF ok THEN /\ durable' = c.content
                  /\ Respond(s, c.op, c.name, c.cid, WriteStatus(c.op, FALSE), "none", << >>)
                  /\ history' = Recorded(history, c.op, c.name, c.cid)
       ELSE /\ durable' = durable
            /\ Respond(s, c.op, c.name, c.cid, WriteStatus(c.op, TRUE), "publish", << >>)
            /\ history' = history
  /\ UNCHANGED <<vhosts, detached, alive, onUnhandled, overlap, gateway, proxied, shutdown>>

\* The clients have read the responses: the next calls can come.
NextRound ==
  /\ alive
  /\ \A s \in Slots : calls[s].pc \in {"idle", "done"}
  /\ \E s \in Slots : calls[s].pc = "done"
  /\ calls' = [s \in Slots |-> Idle]
  /\ overlap' = FALSE
  /\ UNCHANGED <<vhosts, durable, detached, alive, onUnhandled, gateway, proxied, history, shutdown>>

\* ------------------------------------------------------------- the timer
\* setInterval(refreshVhosts, 10000): a tick calls refreshVhosts and drops
\* the promise.
Tick ==
  /\ alive /\ ~Draining /\ "clearInterval" \notin {shutdown.steps[i] : i \in 1..Len(shutdown.steps)}
  /\ BagCardinality(detached) < MaxDetached
  /\ \E res \in CatOutcomes(durable) : detached' = Detach("timer", res)
  /\ UNCHANGED <<vhosts, durable, calls, alive, onUnhandled, overlap, gateway, proxied, history, shutdown>>

\* A detached refresh settles.  Its rejection is handled by nobody: Node.js
\* warns (before version 15) or ends the process (since version 15).
DetachedSettles(e) ==
  /\ alive
  /\ BagIn(e, detached)
  /\ detached' = detached (-) SetToBag({e})
  /\ vhosts' = RefreshVhosts(vhosts, e.res)
  /\ alive' = IF RefreshThrows(e.res) /\ onUnhandled = "throw" THEN FALSE ELSE alive
  /\ UNCHANGED <<durable, calls, onUnhandled, overlap, gateway, proxied, history, shutdown>>

TimerSettles == \E e \in BagToSet(detached) : e.src = "timer" /\ DetachedSettles(e)
LookupSettles == \E e \in BagToSet(detached) : e.src = "lookup" /\ DetachedSettles(e)

\* ------------------------------------------------------------- the proxy
IPFSLabel == <<"ipfs">>

\* pathName.match(new RegExp(`^/${key}($|/)`)) !== null.  A "." of the key is
\* the regular expression's wildcard; the keys of the model hold no other
\* metacharacter, and the paths spell the segments they are matched against
\* one character per chunk.
KeyMatchesPath(pathName, key) ==
  /\ Len(pathName) >= Len(key) + 1
  /\ pathName[1] = "/"
  /\ \A i \in 1..Len(key) : key[i] = "." \/ pathName[i + 1] = key[i]
  /\ \/ Len(pathName) = Len(key) + 1
     \/ pathName[Len(key) + 2] = "/"

\* Object.keys(state.vhosts).find(...): the first key, in the object's
\* property order, whose pattern matches; null when there is none or the key
\* found is "".
getCIDKeyFromPath(v, pathName) ==
  LET hits == {i \in 1..Len(v) : KeyMatchesPath(pathName, v[i][1])}
      cidKey == IF hits = {} THEN Undefined
                ELSE v[CHOOSE i \in hits : \A j \in hits : i <= j][1]
  IN IF Truthy(cidKey) THEN cidKey ELSE Null

getCIDKeyFromHost(v, host) ==
  LET hostName == FirstField(host, Colon)
      subdomain == FirstField(hostName, Dot)
  IN IF isIP(hostName) THEN Null
     ELSE IF HasKey(v, subdomain) THEN subdomain
     ELSE Null

\* A null cidKey reads the property "null" and is spelled "null" in the
\* pattern `/${cidKey}`.
replaceIPFSPath(v, pathName, cidKey) ==
  LET cid == Get(v, cidKey)
  IN IF Truthy(cid)
       THEN ReplaceFirst(pathName, Slash \o StringOf(cidKey), Slash \o IPFSLabel \o Slash \o cid)
     ELSE Null

getIPFSPathFromCIDKey(v, pathName, cidKey) ==
  LET cid == Get(v, cidKey)
  IN IF Truthy(cid) THEN Slash \o IPFSLabel \o Slash \o cid \o pathName
     ELSE Null

getIPFSPathFromPath(v, pathName) ==
  replaceIPFSPath(v, pathName, getCIDKeyFromPath(v, pathName))

getIPFSHostFromCIDKey(v, host, cidKey) ==
  LET cid == Get(v, cidKey)
      cidObj == NewCID(cid)
      isV1B32CID == cidObj.version = 1 /\ cidObj.multibaseName = "base32"
      subdomain == IF isV1B32CID THEN cid ELSE CIDToString(1, "base32", cidObj.hash)
  IN IF ~Truthy(cid) THEN Null
     ELSE subdomain \o Dot \o IPFSLabel \o Dot \o host

\* The middleware's target: the gateway, or the CID's subdomain of it when
\* the Host header names a vhost and the gateway takes subdomains.
MiddlewareTarget(v, gw, reqHost) ==
  LET cidKey == getCIDKeyFromHost(v, reqHost)
      host == getIPFSHostFromCIDKey(v, URLHost(gw), cidKey)
  IN IF Truthy(cidKey) /\ isTargetSubdomainsSupported(gw) /\ Truthy(host)
       THEN host
       ELSE URLHost(gw)

\* proxy.web(req, res, { target, changeOrigin: true }): the outgoing request
\* carries the target's host as its Host header, not the client's.
OutgoingHost(targetHost) == targetHost

\* The proxyReq hook: the path of the outgoing request, read off the outgoing
\* request's Host header and path.
ProxyReqPath(v, gw, hostHeader, pathName) ==
  LET cidKey == getCIDKeyFromHost(v, hostHeader)
      newPath == getIPFSPathFromPath(v, pathName)
  IN IF Truthy(cidKey)
       THEN IF ~isTargetSubdomainsSupported(gw)
              THEN getIPFSPathFromCIDKey(v, pathName, cidKey)
              ELSE pathName
     ELSE IF Truthy(newPath) THEN newPath
     ELSE pathName

\* Requests the clients send through the proxy.
ProxyHosts ==
  { <<"a", ".", "example", ".", "com">>,
    <<"a", "b", ".", "example", ".", "com", ":", "8080">>,
    <<"x", ".", "example", ".", "com">>,
    <<"10", ".", "0", ".", "0", ".", "8", ":", "8080">> }
ProxyPaths ==
  { <<"/">>,
    <<"/", "a">>,
    <<"/", "a", "b">>,
    <<"/", "b", "/", "index.html">>,
    <<"/", "a", "/", "index.html">>,
    <<"/", "index.html">> }

\* app.use((req, res) => ...): the middleware picks the target and hands the
\* request to http-proxy.
ProxyMiddleware(host, pathName) ==
  /\ alive /\ proxied.stage # "middleware"
  /\ proxied' = [NoRequest EXCEPT !.stage = "middleware", !.reqHost = host,
                                  !.reqPath = pathName, !.seenByMiddleware = vhosts,
                                  !.outHost = OutgoingHost(MiddlewareTarget(vhosts, gateway, host)),
                                  !.outPath = pathName]
  /\ UNCHANGED <<vhosts, durable, calls, detached, alive, onUnhandled, overlap, gateway, history, shutdown>>

\* proxy.on('proxyReq', ...): the hook runs once the outgoing request has its
\* socket, and may rewrite the path.
ProxyReqHook ==
  /\ alive /\ proxied.stage = "middleware"
  /\ proxied' = [proxied EXCEPT !.stage = "sent", !.seenByHook = vhosts,
                                !.outPath = ProxyReqPath(vhosts, gateway, proxied.outHost, proxied.outPath),
                                !.pathKey = IF Truthy(getCIDKeyFromHost(vhosts, proxied.outHost))
                                              THEN Null
                                            ELSE getCIDKeyFromPath(vhosts, proxied.outPath)]
  /\ UNCHANGED <<vhosts, durable, calls, detached, alive, onUnhandled, overlap, gateway, history, shutdown>>

\* ------------------------------------------------------------- shutdown
\* A handled signal arrives and shutdown(signal, value) runs.  Its first
\* statement calls clearInterva, a name nothing defines: the call throws a
\* ReferenceError out of the signal's listener, which nothing catches, and
\* Node.js ends the process with exit code 1 before server.close is reached.
\* Were the name in scope, the timer would be cleared, then the server and
\* the forwarder closed and the process would exit with 128 + value.
ShutdownSignal(sig) ==
  /\ alive /\ ~Draining
  /\ IF "clearInterva" \in InScope
       THEN shutdown' = [signal |-> sig,
                         steps |-> <<"clearInterval", "server.close", "proxy.close", "process.exit">>,
                         exitCode |-> 128 + Signals[sig]]
     ELSE shutdown' = [signal |-> sig, steps |-> << >>, exitCode |-> 1]
  /\ alive' = FALSE
  /\ UNCHANGED <<vhosts, durable, calls, detached, onUnhandled, overlap, gateway, proxied, history>>

\* Calls arrive one after another (each in slot 1, once the previous one has
\* answered), interleaved with the timer and the detached lookups.
SeqSlots == {1}

Next ==
  \/ \E s \in SeqSlots : ListRequest(s)
  \/ \E s \in SeqSlots, name \in ReqNames : GetRequest(s, name)
  \/ \E s \in SeqSlots, name \in WriteNames, cid \in ReqCids : CreateRequest(s, name, cid)
  \/ \E s \in SeqSlots, name \in WriteNames, cid \in ReqCids : UpdateRequest(s, name, cid)
  \/ \E s \in SeqSlots, name \in ReqNames : DeleteRequest(s, name)
  \/ \E s \in SeqSlots : RefreshSettles(s)
  \/ \E s \in SeqSlots : Resume(s)
  \/ \E s \in SeqSlots : AddSettles(s)
  \/ \E s \in SeqSlots : PublishSettles(s)
  \/ NextRound
  \/ Tick
  \/ TimerSettles
  \/ LookupSettles

Spec == Init /\ [][Next]_vars

\* Overlapping writes: two calls in flight together, each a create of b or a
\* delete of a, with the timer running.
\* Node.js before version 15, where an unhandled rejection only warns: the
\* process of the later versions stops at a point this one runs past.
InitWarn == Init /\ onUnhandled = "warn"

\* The overlapping writes start from the record that holds the name they
\* delete.
InitRace == InitWarn /\ vhosts # << >>

RaceWriteNames == {NameB}
RaceDeleteNames == {NameA}
RaceCids == {CidA}

NextRace ==
  \/ \E s \in Slots, name \in RaceWriteNames, cid \in RaceCids : CreateRequest(s, name, cid)
  \/ \E s \in Slots, name \in RaceDeleteNames : DeleteRequest(s, name)
  \/ \E s \in Slots : RefreshSettles(s)
  \/ \E s \in Slots : Resume(s)
  \/ \E s \in Slots : AddSettles(s)
  \/ \E s \in Slots : PublishSettles(s)
  \/ NextRound
  \/ Tick
  \/ TimerSettles
  \/ LookupSettles

SpecRace == InitRace /\ [][NextRace]_vars

\* The proxy at work: the registry and the durable record hold any of a few
\* mappings (another instance may have republished the record since the last
\* refresh), the gateway is addressed by name or by IP, and the timer runs.
\* Calls with names the handlers do not expect, one after another, with the
\* timer running: creates under the empty name and under the array index
\* "1", gets and deletes of a name every object inherits.
NextNames ==
  \/ \E s \in SeqSlots : ListRequest(s)
  \/ \E s \in SeqSlots, name \in InheritedNames : GetRequest(s, name)
  \/ \E s \in SeqSlots, name \in OddNames, cid \in RaceCids : CreateRequest(s, name, cid)
  \/ \E s \in SeqSlots, name \in InheritedNames : DeleteRequest(s, name)
  \/ \E s \in SeqSlots : RefreshSettles(s)
  \/ \E s \in SeqSlots : Resume(s)
  \/ \E s \in SeqSlots : AddSettles(s)
  \/ \E s \in SeqSlots : PublishSettles(s)
  \/ NextRound
  \/ Tick
  \/ TimerSettles
  \/ LookupSettles

SpecNames == InitWarn /\ [][NextNames]_vars

ProxyRegistries ==
  { << >>,
    <<<<NameA, CidA>>>>,
    <<<<NameA, CidA>>, <<NameB, CidB>>>>,
    <<<<NameB, CidB>>, <<<<"x">>, CidA>>>>,
    <<<<NameA, CidA>>, <<<<"a", ".">>, CidB>>>> }   \* a name may hold any character

InitProxy ==
  /\ vhosts \in ProxyRegistries
  /\ \E d \in ProxyRegistries : durable = JSONStringify(d)
  /\ calls = [s \in Slots |-> Idle]
  /\ detached = EmptyBag
  /\ alive = TRUE
  /\ onUnhandled \in {"warn", "throw"}
  /\ overlap = FALSE
  /\ gateway \in Gateways
  /\ proxied = NoRequest
  /\ history = NoHistory
  /\ shutdown = Running

NextProxy ==
  \/ \E host \in ProxyHosts, pathName \in ProxyPaths : ProxyMiddleware(host, pathName)
  \/ ProxyReqHook
  \/ Tick
  \/ TimerSettles
  \/ \E sig \in DOMAIN Signals : ShutdownSignal(sig)

SpecProxy == InitProxy /\ [][NextProxy]_vars

\* ================================================================ properties
\* The effect of the write call c is present in the registry v.
EffectIn(c, v) ==
  IF c.op = "delete" THEN ~HasKey(v, c.name) ELSE Get(v, c.name) = c.cid

\* The call c is a write that has answered with its success status.
Succeeded(c) == c.pc = "done" /\ c.op \in WriteOps /\ c.status \in {200, 201}

\* Slots s and t hold two successful writes on different names.
TwoWritesDone(s, t) ==
  /\ s # t
  /\ Succeeded(calls[s]) /\ Succeeded(calls[t])
  /\ calls[s].name # calls[t].name

DurableRegistry == JSONParse(durable)

\* C1, as stated: once two overlapping writes on different names have both
\* completed successfully, the effect of each is in the in-memory registry
\* and in the durable record.
C1_OverlappingWritesKeepBoth ==
  \A s, t \in Slots :
    TwoWritesDone(s, t) /\ overlap =>
      EffectIn(calls[s], vhosts) /\ EffectIn(calls[s], DurableRegistry)

\* C1, amended: once two writes on different names that did not overlap, with
\* no other write of the round beside them, each resumed on the registry its
\* own refresh had loaded, have both completed successfully, the effect of
\* each is in the durable record.
C1_SequentialWritesKeepBoth ==
  \A s, t \in Slots :
    /\ TwoWritesDone(s, t) /\ ~overlap
    /\ calls[s].own /\ calls[t].own
    /\ \A u \in Slots \ {s, t} : calls[u].op \notin WriteOps
    => EffectIn(calls[s], DurableRegistry)

C1_Witness ==
  \E s, t \in Slots :
    /\ TwoWritesDone(s, t) /\ ~overlap
    /\ calls[s].own /\ calls[t].own
    /\ calls[s].op = "create" /\ calls[t].op = "delete"
    /\ EffectIn(calls[s], DurableRegistry) /\ EffectIn(calls[t], DurableRegistry)

\* A write between its in-memory mutation and the completion of its publish.
Pending(c) == c.op \in WriteOps /\ c.pc \in {"add", "publish"}

\* C2, as stated: a timer-driven refresh that settles while a write is
\* pending leaves that write's mutation in the in-memory registry.
C2_TimerKeepsPendingMutation ==
  [][TimerSettles => \A s \in Slots : Pending(calls[s]) => EffectIn(calls[s], vhosts')]_vars

\* C3: a refresh that fails (the cat errors or the text is no JSON), awaited
\* by a call or detached, leaves the in-memory registry as it was.
C3_FailedRefreshKeepsRegistry ==
  [][/\ \A s \in Slots :
          calls[s].pc = "refresh" /\ RefreshThrows(calls[s].res) /\ RefreshSettles(s)
            => vhosts' = vhosts
     /\ \A e \in BagToSet(detached) :
          RefreshThrows(e.res) /\ DetachedSettles(e) => vhosts' = vhosts]_vars

\* A call's refresh has failed on a record cut short, the registry being
\* non-empty.
C3_Witness ==
  \E s \in Slots :
    /\ calls[s].pc = "done" /\ calls[s].err = "refresh"
    /\ vhosts # << >>

\* C4, as stated: after a failed timer-driven refresh the process is still
\* running.
C4_FailedTimerRefreshSwallowed ==
  [][\A e \in BagToSet(detached) :
       e.src = "timer" /\ RefreshThrows(e.res) /\ DetachedSettles(e) => alive']_vars

\* C5, as stated: when the refresh inside list() or get(name) fails, the call
\* answers from the registry as it was (200 with the entries, 200 with the
\* entry, or 404), not with an error.
C5_ReadAnswersFromStale ==
  [][\A s \in Slots :
       /\ calls[s].pc = "resume" /\ calls[s].op \in ReadOps
       /\ RefreshThrows(calls[s].res) /\ calls'[s].pc = "done"
       => /\ calls'[s].status \in {200, 404}
          /\ calls[s].op = "list" => calls'[s].body = Entries(vhosts)
          /\ calls[s].op = "get" /\ HasKey(vhosts, calls[s].name)
               => calls'[s].body = <<calls[s].name, Get(vhosts, calls[s].name)>>]_vars

\* C6: a write whose publish step failed (ipfs.add or ipfs.name.publish) has
\* not answered with a success status.
C6_FailedPublishNeverSucceeds ==
  \A s \in Slots :
    calls[s].pc = "done" /\ calls[s].op \in WriteOps /\ calls[s].err \in {"add", "publish"}
      => calls[s].status \notin {200, 201}

C6_Witness ==
  \E s \in Slots :
    /\ calls[s].pc = "done" /\ calls[s].op = "create"
    /\ calls[s].err = "publish" /\ calls[s].status = 500
    /\ EffectIn(calls[s], vhosts) /\ ~EffectIn(calls[s], DurableRegistry)

\* The reserved names of the specification.
ReservedNames == {api, content, localhost}

\* C10: a create whose name is reserved answers name_not_allowed at once,
\* whatever the registry and the CID are, without a refresh, a registry
\* change or a publish.
C10_ReservedCreateRejected ==
  [][\A s \in Slots :
       /\ calls[s].pc = "idle" /\ calls'[s].pc # "idle"
       /\ calls'[s].op = "create" /\ calls'[s].name \in ReservedNames
       => /\ calls'[s].pc = "done"
          /\ calls'[s].status = 401 /\ calls'[s].err = "name_not_allowed"
          /\ vhosts' = vhosts /\ durable' = durable /\ detached' = detached]_vars

\* create("api", <valid CID>) has been rejected while the registry held an entry.
C10_Witness ==
  \E s \in Slots :
    /\ calls[s].pc = "done" /\ calls[s].op = "create"
    /\ calls[s].name = api /\ isValidCID(calls[s].cid)
    /\ calls[s].status = 401
    /\ vhosts # << >>

\* ---- the proxy's claims
\* The registry did not change between the middleware and the proxyReq hook
\* of the request now sent.
SentWith(v) ==
  /\ proxied.stage = "sent"
  /\ proxied.seenByMiddleware = v /\ proxied.seenByHook = v

\* The specification's resolver: the leftmost label of the Host header, when
\* the host is no IP literal and the label is a vhost name ...
LeftmostLabel(host) == FirstField(FirstField(host, Colon), Dot)
ResolvesByHost(v, host, k) ==
  /\ ~isIP(FirstField(host, Colon))
  /\ k = LeftmostLabel(host) /\ HasKey(v, k)

\* ... or else a vhost name k with the path equal to /k or starting with /k/.
ResolvesByPath(v, host, pathName, k) ==
  /\ \A h \in KeySet(v) : ~ResolvesByHost(v, host, h)
  /\ HasKey(v, k)
  /\ (pathName = Slash \o k \/ StartsWith(pathName, Slash \o k \o Slash))

\* The specification's toSubdomainSafe on the CIDs of the model.
ToSubdomainSafe(cid) == IF cid = CidB THEN <<"bafyB">> ELSE cid

IPFSPath(cid) == Slash \o IPFSLabel \o Slash \o cid

\* C7, as stated: with vhosts a and b registered, a request whose Host has
\* the leftmost label a and whose path is /b/... is forwarded as content of
\* a, and its path is not rewritten using b, for either kind of gateway.
C7_HostWinsOverPath ==
  \A v \in ProxyRegistries :
    /\ SentWith(v)
    /\ HasKey(v, NameA) /\ HasKey(v, NameB)
    /\ ResolvesByHost(v, proxied.reqHost, NameA)
    /\ StartsWith(proxied.reqPath, Slash \o NameB \o Slash)
    => /\ proxied.outPath # ReplaceFirst(proxied.reqPath, Slash \o NameB, IPFSPath(Get(v, NameB)))
       /\ IF isTargetSubdomainsSupported(gateway)
            THEN /\ proxied.outHost = ToSubdomainSafe(Get(v, NameA)) \o Dot \o IPFSLabel \o Dot \o URLHost(gateway)
                 /\ proxied.outPath = proxied.reqPath
            ELSE proxied.outPath = IPFSPath(Get(v, NameA)) \o proxied.reqPath

\* C8, as stated: a request that resolves to a vhost k, by host or by path,
\* with a gateway that supports subdomains, goes out with the host
\* <subdomain-safe CID>.ipfs.<gatewayHost> and with its path unchanged.
C8_SubdomainHostRewrite ==
  \A v \in ProxyRegistries : \A k \in KeySet(v) :
    /\ SentWith(v)
    /\ isTargetSubdomainsSupported(gateway)
    /\ \/ ResolvesByHost(v, proxied.reqHost, k)
       \/ ResolvesByPath(v, proxied.reqHost, proxied.reqPath, k)
    => /\ proxied.outHost = ToSubdomainSafe(Get(v, k)) \o Dot \o IPFSLabel \o Dot \o URLHost(gateway)
       /\ proxied.outPath = proxied.reqPath

\* C9, as stated: with a gateway that does not support subdomains, a request
\* resolved by host to k goes out with the path /ipfs/<cid> followed by the
\* original path, and a request resolved by path to k with the path
\* /ipfs/<cid> followed by the original path less its leading /k.
C9_PathRewrite ==
  \A v \in ProxyRegistries : \A k \in KeySet(v) :
    /\ SentWith(v)
    /\ ~isTargetSubdomainsSupported(gateway)
    => /\ ResolvesByHost(v, proxied.reqHost, k)
            => proxied.outPath = IPFSPath(Get(v, k)) \o proxied.reqPath
       /\ ResolvesByPath(v, proxied.reqHost, proxied.reqPath, k)
            => proxied.outPath = IPFSPath(Get(v, k))
                                   \o SubSeq(proxied.reqPath, Len(k) + 2, Len(proxied.reqPath))

\* ---- the control plane's claims, continued
\* C11: no sequence of control-plane calls puts an entry under a reserved
\* name into the registry: update rejects a reserved name as create does.
C11_NoReservedNameInRegistry ==
  \A k \in ReservedNames : ~HasKey(vhosts, k)

\* The call c is an update or a delete about to resume after its refresh,
\* which succeeded, on a registry without the call's name.
ResumesWithoutName(c) ==
  /\ c.pc = "resume" /\ c.op \in {"update", "delete"}
  /\ c.res.ok /\ JSONValid(c.res.bytes)
  /\ ~HasKey(vhosts, c.name)

\* C12: an update or a delete of a name the refreshed registry does not hold
\* answers not_found, and neither changes the registry nor starts a publish.
C12_AbsentNameNotFound ==
  [][\A s \in Slots :
       ResumesWithoutName(calls[s]) /\ calls'[s].pc # "resume"
       => /\ calls'[s].pc = "done" /\ calls'[s].status = 404
          /\ vhosts' = vhosts /\ durable' = durable]_vars

\* The call c is a get that has answered found or not found, and when it was
\* sent the last successful write was op on the get's own name.
GetAfter(c, op) ==
  /\ c.pc = "done" /\ c.op = "get" /\ c.status \in {200, 404}
  /\ c.base.last.op = op /\ c.base.last.name = c.name

\* C13: a get(name) sent after a successful create(name, cid), with no other
\* successful write in between, returns exactly {name, cid}.
C13_CreateThenGet ==
  \A s \in Slots :
    GetAfter(calls[s], "create")
    => /\ calls[s].status = 200
       /\ calls[s].body = <<calls[s].name, calls[s].base.last.cid>>

\* C14: a get(name) sent while the successful delete(name) is the last
\* successful write of any name answers not found.
C14_DeleteThenGet ==
  \A s \in Slots : GetAfter(calls[s], "delete") => calls[s].status = 404

\* C15: in every reachable state each entry of the registry has a name that
\* is not empty and a CID that parses.
C15_EntriesWellFormed ==
  \A i \in 1..Len(vhosts) : vhosts[i][1] # EmptyName /\ isValidCID(vhosts[i][2])

\* ---- shutdown's claim
\* C16: once a handled signal has arrived, shutdown has cancelled the timer,
\* closed the server, closed the forwarder and exited, in that order, with
\* exit code 128 + the signal's value.
C16_GracefulShutdown ==
  shutdown.signal # "none"
  => /\ shutdown.steps = <<"clearInterval", "server.close", "proxy.close", "process.exit">>
     /\ shutdown.exitCode = 128 + Signals[shutdown.signal]

\* C17: when the proxyReq hook resolves a request by its path, the key k it
\* finds is one the path equals behind a slash (/k) or starts with (/k/).
C17_PathKeyOnlyOnPrefix ==
  proxied.stage = "sent" /\ Truthy(proxied.pathKey)
  => \/ proxied.reqPath = Slash \o proxied.pathKey
     \/ StartsWith(proxied.reqPath, Slash \o proxied.pathKey \o Slash)

\* ---- the order inside a write
\* The cat of a refresh failed or delivered a text JSON.parse rejects.
RecordUnreadable(res) == ~res.ok \/ ~JSONValid(res.bytes)

\* C18: within a write call the refresh completes before the mutation and
\* the mutation before the publish starts: ipfs.add starts only in the step
\* in which the call's readable refresh settles and the mutation is applied,
\* ipfs.name.publish only after ipfs.add, and the durable record changes only
\* when a publish settles; a write whose refresh fails answers with an error
\* and neither mutates the registry nor publishes.
C18_RefreshMutatePublish ==
  [][/\ \A s \in Slots :
          LET c == calls[s]
              d == calls'[s]
          IN /\ d.pc = "resume" /\ c.pc # "resume" => c.pc = "refresh"
             /\ d.pc = "add" /\ c.pc # "add"
                  => /\ c.pc = "resume" /\ c.op \in WriteOps /\ ~RecordUnreadable(c.res)
                     /\ EffectIn(c, vhosts') /\ durable' = durable
             /\ d.pc = "publish" /\ c.pc # "publish"
                  => c.pc = "add" /\ vhosts' = vhosts /\ durable' = durable
             /\ c.pc = "resume" /\ c.op \in WriteOps /\ RecordUnreadable(c.res) /\ d.pc # "resume"
                  => /\ d.pc = "done" /\ d.status = 500
                     /\ vhosts' = vhosts /\ durable' = durable
     /\ durable' # durable => \E s \in Slots : calls[s].pc = "publish" /\ calls'[s].pc = "done"]_vars

\* An update has refreshed and mutated the registry and its publish is under
\* way; the durable record does not hold its entry yet.
C18_Witness ==
  \E s \in Slots :
    /\ calls[s].op = "update" /\ calls[s].pc = "publish"
    /\ EffectIn(calls[s], vhosts) /\ ~EffectIn(calls[s], DurableRegistry)

\* C19: the mapping a write publishes reflects the write's own mutation,
\* whatever other calls and refreshes run meanwhile: the text it holds for
\* publishing has its effect, and so has the durable record once its publish
\* has succeeded.
C19_PublishedHasOwnMutation ==
  /\ \A s \in Slots :
       Pending(calls[s]) => EffectIn(calls[s], JSONParse(calls[s].content))
  /\ history.last.op # "none" => EffectIn(history.last, DurableRegistry)

\* Two writes are in flight, the registry has lost the mutation of one of
\* them to the other's refresh, and the text that one publishes still has it.
C19_Witness ==
  \E s, t \in Slots :
    /\ s # t /\ Pending(calls[s]) /\ Pending(calls[t])
    /\ ~EffectIn(calls[s], vhosts)
    /\ EffectIn(calls[s], JSONParse(calls[s].content))

\* C20: when the publish of a write fails the mutation is not rolled back:
\* the failing step leaves the registry and the durable record as they are,
\* and the registry changes only when a refresh settles or a write that has
\* refreshed applies its mutation.
C20_NoRollback ==
  [][/\ \A s \in Slots :
          Pending(calls[s]) /\ calls'[s].pc = "done" /\ calls'[s].err \in {"add", "publish"}
          => vhosts' = vhosts /\ durable' = durable
     /\ vhosts' # vhosts
          => \/ \E s \in Slots : calls[s].pc = "refresh" /\ calls'[s].pc = "resume"
             \/ \E s \in Slots : calls[s].pc = "resume" /\ calls'[s].pc = "add"
             \/ detached' # detached]_vars

\* The publish of an update has failed: the registry has the update's entry
\* and differs from the durable record.
C20_Witness ==
  \E s \in Slots :
    /\ calls[s].pc = "done" /\ calls[s].op = "update" /\ calls[s].err = "publish"
    /\ EffectIn(calls[s], vhosts)
    /\ vhosts # DurableRegistry

====
